---- MODULE Spec2Model ----
(***************************************************************************)
(* Model of the source-text scanners of tofu-docs:                         *)
(*   - find_prop_in_block (src/lib/common/helper.py): the character-wise   *)
(*     bracket / quote / heredoc scan that recovers the raw text of one    *)
(*     property of an HCL block;                                           *)
(*   - find_blocks (src/lib/common/helper.py) and                          *)
(*     SingleElementRootModel.find (src/lib/models/input.py): the          *)
(*     regex-bounded extraction of declaration blocks;                     *)
(*   - HclLocal.find (src/lib/models/input.py): the choice of the locals   *)
(*     block that declares a local.                                        *)
(* Strings are sequences of one-character strings; offsets are Python's    *)
(* 0-based offsets, so the character at offset i of s is s[i + 1].         *)
(***************************************************************************)
EXTENDS Integers, Sequences, FiniteSets, TLC

VARIABLES
  (* find_prop_in_block: its argument, its locals, its outcome.            *)
  text, pc, start, idx, bracket_stack, line_ended, in_quoted, in_heredoc,
  is_escaped, heredoc_name, ret, result, exc,
  (* SingleElementRootModel.find / find_blocks: argument, locals, outcome. *)
  file, start_regex, caller, fb_pc, locs, fb_i, blocks, found, fb_exc,
  (* HclLocal.find: its locals, the warnings it logs, its return value.    *)
  lf_i, loc_matches, warnings, lf_result,
  (* The outcomes of the completed calls of find_prop_in_block.            *)
  history,
  (* HclModule(): the setting, the declarations of the module's files, the *)
  (* position of the construction, the dictionaries of the files and of    *)
  (* the module, and the error raised.                                     *)
  add_resource_identifier, decls, hm_pc, hm_n, data_parsed, parsed_data,
  hm_exc,
  (* Formatter._make_table: the items to format, skip_columns, the format  *)
  (* settings it reads, its locals header, rows and table, and the error   *)
  (* raised.                                                               *)
  items, skip_columns, remove_empty_columns, sort_order, collapsible,
  tb_pc, header, rows, table, tb_exc,
  (* Writer: the content of the target file, the generated documentation,  *)
  (* the attributes _original_content, _updated_content and _changed, the  *)
  (* error raised by write, and the number of calls of write.              *)
  target, generated_doc, original_content, updated_content, changed,
  w_exc, w_n

scanVars == <<text, pc, start, idx, bracket_stack, line_ended, in_quoted,
              in_heredoc, is_escaped, heredoc_name, ret, result, exc>>

blockVars == <<file, start_regex, caller, fb_pc, locs, fb_i, blocks, found,
               fb_exc>>

localVars == <<lf_i, loc_matches, warnings, lf_result>>

moduleVars == <<add_resource_identifier, decls, hm_pc, hm_n, data_parsed,
                parsed_data, hm_exc>>

tableVars == <<items, skip_columns, remove_empty_columns, sort_order,
               collapsible, tb_pc, header, rows, table, tb_exc>>

writerVars == <<target, generated_doc, original_content, updated_content,
                changed, w_exc, w_n>>

otherVars == <<moduleVars, tableVars, writerVars>>

vars == <<scanVars, blockVars, localVars, history, otherVars>>

(***************************************************************************)
(* Bounds of the model.                                                    *)
(***************************************************************************)
MaxTokens == 4
MaxLines == 4
MaxBodyLines == 2
MaxFileLines == 5
MaxAnchorLines == 3
MaxAnchors == 2
MaxLocalTokens == 4
MaxCalls == 3

(* The most declarations in the files of one module.                      *)
MaxDecls == 2

(* The most items in one table.                                           *)
MaxRows == 2

(* The most lines in a target file, and the most runs on one target.      *)
MaxTargetLines == 3
MaxWrites == 2

(***************************************************************************)
(* Character classes of Python's re module on the characters used here.    *)
(***************************************************************************)
NL == "\n"
WordChars == {"a", "b", "e", "i", "l", "r", "v", "x", "E"}
Whitespace == {" ", NL}
Openers == {"{", "[", "("}
Closers == {"}", "]", ")"}
BRACKETS == [c \in Closers |-> CASE c = "}" -> "{" [] c = "]" -> "[" [] c = ")" -> "("]

(* The property name looked up: the prop argument of find_prop_in_block.   *)
Prop == <<"x">>

(***************************************************************************)
(* String helpers.                                                         *)
(***************************************************************************)
RECURSIVE Concat(_)
Concat(ss) == IF ss = <<>> THEN <<>> ELSE Head(ss) \o Concat(Tail(ss))

(* s[i] of Python for an offset that may be negative (s[-1] is the last).  *)
CharAt(s, i) ==
  IF i >= 0 /\ i < Len(s) THEN s[i + 1]
  ELSE IF i < 0 /\ Len(s) + i >= 0 THEN s[Len(s) + i + 1]
  ELSE "IndexError"

(* s[i:j] of Python for 0 <= i.                                            *)
Slice(s, i, j) == IF j <= i THEN <<>> ELSE SubSeq(s, i + 1, IF j > Len(s) THEN Len(s) ELSE j)

(* s.startswith(p, i)                                                      *)
StartsWith(s, p, i) == i + Len(p) <= Len(s) /\ SubSeq(s, i + 1, i + Len(p)) = p

(* The first offset at or after i whose character is not in the class.     *)
RECURSIVE SkipWhile(_, _, _)
SkipWhile(s, i, class) ==
  IF i < Len(s) /\ s[i + 1] \in class THEN SkipWhile(s, i + 1, class) ELSE i

(* The last offset j <= hi such that s[j-1] is not in the class (rstrip).  *)
RECURSIVE SkipBack(_, _, _)
SkipBack(s, j, class) ==
  IF j > 0 /\ s[j] \in class THEN SkipBack(s, j - 1, class) ELSE j

(* str.strip()                                                             *)
Strip(s) ==
  LET i == SkipWhile(s, 0, Whitespace)
      j == SkipBack(s, Len(s), Whitespace)
  IN  Slice(s, i, j)

(***************************************************************************)
(* The regular expressions of find_prop_in_block.                          *)
(***************************************************************************)
(* End offset of a match of  ^ *{prop}\s*=  that starts at offset p, or -1 *)
PropMatchEnd(s, p) ==
  LET a == SkipWhile(s, p, {" "})
      b == a + Len(Prop)
      d == SkipWhile(s, b, Whitespace)
  IN  IF StartsWith(s, Prop, a) /\ CharAt(s, d) = "=" /\ d < Len(s) THEN d + 1 ELSE -1

(* re.MULTILINE: ^ matches at offset 0 and right after every newline.      *)
LineStarts(s) == {p \in 0..(Len(s) - 1) : p = 0 \/ s[p] = NL}

(* The start offsets of re.finditer(rf'^ *{prop}\s*=', text, re.MULTILINE) *)
PropMatches(s) == {p \in LineStarts(s) : PropMatchEnd(s, p) >= 0}

(* The sort key: len(m.group(0)) - len(m.group(0).lstrip())                *)
LeadingSpaces(s, p) == SkipWhile(s, p, Whitespace) - p

(* As SelectedMatch, but without the sort: the first occurrence in the     *)
(* text is taken.                                                          *)
SelectedMatchFirst(s) ==
  LET M == PropMatches(s)
  IN  CHOOSE p \in M : \A q \in M : p <= q

(* matches[0] after the stable sort by leading spaces of lines 68-72.      *)
SelectedMatch(s) ==
  LET M == PropMatches(s)
  IN  CHOOSE p \in M : \A q \in M :
        \/ LeadingSpaces(s, p) < LeadingSpaces(s, q)
        \/ LeadingSpaces(s, p) = LeadingSpaces(s, q) /\ p <= q

(* Length of the match of RE_HEREDOC = <<-?(\w+) at offset i, 0 if none.   *)
HeredocMatchLen(s, i) ==
  LET a == IF CharAt(s, i + 2) = "-" /\ i + 2 < Len(s) THEN i + 3 ELSE i + 2
      b == SkipWhile(s, a, WordChars)
  IN  IF StartsWith(s, <<"<", "<">>, i) /\ b > a THEN b - i ELSE 0

(* match.group(1) of RE_HEREDOC at offset i.                               *)
HeredocMatchName(s, i) ==
  LET n == HeredocMatchLen(s, i)
      a == IF CharAt(s, i + 2) = "-" THEN i + 3 ELSE i + 2
  IN  Slice(s, a, i + n)

(* re.sub(rf'^ *{prop}\s*=\s*', '', ret, count=1)                          *)
StripPrefix(r) ==
  LET e == PropMatchEnd(r, 0)
  IN  IF e >= 0 THEN Slice(r, SkipWhile(r, e, Whitespace), Len(r)) ELSE r

(***************************************************************************)
(* find_blocks and SingleElementRootModel.find: lines and patterns.        *)
(***************************************************************************)
(* The first offset at or after i whose character is c, else Len(s).       *)
RECURSIVE IndexFrom(_, _, _)
IndexFrom(s, i, c) ==
  IF i < Len(s) /\ s[i + 1] # c THEN IndexFrom(s, i + 1, c) ELSE i

(* str.splitlines() on texts whose only line separator is the newline.     *)
RECURSIVE SplitLines(_)
SplitLines(s) ==
  IF s = <<>> THEN <<>>
  ELSE LET e == IndexFrom(s, 0, NL)
       IN  <<Slice(s, 0, e)>> \o SplitLines(Slice(s, e + 1, Len(s)))

(* '\n'.join(block)                                                        *)
RECURSIVE Join(_)
Join(ls) ==
  IF ls = <<>> THEN <<>>
  ELSE IF Len(ls) = 1 THEN ls[1]
  ELSE ls[1] \o <<NL>> \o Join(Tail(ls))

(* lst[i:] of Python, i possibly negative.                                 *)
PySliceFrom(lst, i) ==
  LET j == IF i < 0 THEN (IF Len(lst) + i < 0 THEN 0 ELSE Len(lst) + i) ELSE i
  IN  IF j >= Len(lst) THEN <<>> ELSE SubSeq(lst, j + 1, Len(lst))

(* text.count('\n', 0, p)                                                  *)
CountNL(s, p) == Cardinality({k \in 1..p : k <= Len(s) /\ s[k] = NL})

(* HclVariable._start_regex  ^variable "{name}" {$  for the name a.        *)
StartLine ==
  <<"v", "a", "r", "i", "a", "b", "l", "e", " ", "\"", "a", "\"", " ", "{">>

(* HclLocal._start_regex  ^locals {$                                       *)
LocalsLine == <<"l", "o", "c", "a", "l", "s", " ", "{">>

(* re.match(start_regex, line); start_regex holds the line the pattern     *)
(* ^...$ accepts.                                                          *)
MatchesStart(line) == line = start_regex

(* re.match(end_regex, line) for the default end_regex ^}$                 *)
MatchesEnd(line) == line = <<"}">>

(* Start offsets of re.finditer(start_regex, file_content, re.MULTILINE).  *)
StartMatches(s) ==
  {p \in LineStarts(s) :
     /\ StartsWith(s, start_regex, p)
     /\ (p + Len(start_regex) = Len(s) \/ CharAt(s, p + Len(start_regex)) = NL)}

(* The offsets of a set in increasing order.                               *)
RECURSIVE Ascending(_)
Ascending(S) ==
  IF S = {} THEN <<>>
  ELSE LET m == CHOOSE x \in S : \A y \in S : x <= y
       IN  <<m>> \o Ascending(S \ {m})

(* As LocsOf, but counting lines from 0.                                   *)
LocsOfZeroBased(s) ==
  LET ps == Ascending(StartMatches(s))
  IN  [k \in 1..Len(ps) |-> CountNL(s, ps[k])]

(* Lines 129-134 of input.py: the 1-based line of every match.             *)
LocsOf(s) ==
  LET ps == Ascending(StartMatches(s))
  IN  [k \in 1..Len(ps) |-> CountNL(s, ps[k]) + 1]

(* The index of the first line of ls matching end_regex, 0 if none.        *)
RECURSIVE FirstEnd(_, _)
FirstEnd(ls, k) ==
  IF k > Len(ls) THEN 0
  ELSE IF MatchesEnd(ls[k]) THEN k
  ELSE FirstEnd(ls, k + 1)

(***************************************************************************)
(* HclLocal.find: the pattern  ^\s*{name}\s*=  and the indentation.        *)
(***************************************************************************)
(* End offset of a match of  ^\s*{name}\s*=  that starts at offset p, or   *)
(* -1.  \s also takes newlines, so a match can start on a blank line       *)
(* above the property.                                                     *)
LocalMatchEnd(s, p) ==
  LET a == SkipWhile(s, p, Whitespace)
      b == a + Len(Prop)
      d == SkipWhile(s, b, Whitespace)
  IN  IF StartsWith(s, Prop, a) /\ d < Len(s) /\ CharAt(s, d) = "=" THEN d + 1 ELSE -1

(* The start offsets of re.finditer(rf'^\s*{name}\s*=', block,             *)
(* re.MULTILINE) from offset i on, in order: matches do not overlap.       *)
RECURSIVE LocalMatches(_, _)
LocalMatches(s, i) ==
  LET M == {p \in LineStarts(s) : p >= i /\ LocalMatchEnd(s, p) >= 0}
  IN  IF M = {} THEN <<>>
      ELSE LET p == CHOOSE x \in M : \A y \in M : x <= y
           IN  <<p>> \o LocalMatches(s, LocalMatchEnd(s, p))

(* indent(m.group(0)) for the match that starts at offset p.               *)
indent(s, p) == SkipWhile(s, p, Whitespace) - p

(* The first element of ms with the least key: ms[0] after a stable sort.  *)
FirstLeast(ms, key(_)) ==
  CHOOSE k \in 1..Len(ms) :
    \A j \in 1..Len(ms) : key(ms[k]) < key(ms[j]) \/ (key(ms[k]) = key(ms[j]) /\ k <= j)

(***************************************************************************)
(* The block texts scanned.  Either the property at the start of the text  *)
(* followed by at most MaxTokens tokens of a value, or at most MaxLines    *)
(* whole lines, among them the property at several indentations, or a      *)
(* heredoc value with at most MaxBodyLines body lines, possibly inside a   *)
(* bracket.                                                                *)
(***************************************************************************)
PropHead == <<"x", "=">>

Tokens ==
  { <<" ">>, <<NL>>, <<"\"">>, <<"\\">>, <<"{">>, <<"}">>, <<"[">>, <<"]">> }

TokenSeqs == UNION {[1..n -> Tokens] : n \in 0..MaxTokens}

ValueTexts == {PropHead \o Concat(ts) : ts \in TokenSeqs}

Lines ==
  { <<"x", "=", "{", NL>>, <<" ", "x", "=", "{", NL>>,
    <<"x", "=", "a", NL>>, <<" ", "x", "=", "a", NL>>,
    <<" ", " ", "x", "=", "a", NL>>,
    <<"}", NL>>, <<" ", "}", NL>> }

LineSeqs == UNION {[1..n -> Lines] : n \in 0..MaxLines}

LineTexts == {Concat(ls) : ls \in LineSeqs}

HeredocPre == {<<>>, <<"{", NL>>, <<"[">>}

HeredocOpenerLines == {<<"<", "<", "E", NL>>, <<"<", "<", "-", "E", NL>>}

HeredocBodyLines ==
  {<<NL>>, <<" ", NL>>, <<"{", NL>>, <<"}", NL>>, <<"]", NL>>, <<"\"", NL>>}

HeredocBodySeqs == UNION {[1..n -> HeredocBodyLines] : n \in 0..MaxBodyLines}

HeredocPost ==
  {<<>>, <<"}", NL>>, <<"]", NL>>, <<"a", NL>>, <<"\\", "\"">>, <<"\"", "a", "\"", NL>>}

HeredocTexts ==
  {PropHead \o pre \o op \o Concat(body) \o <<"E", NL>> \o post :
     pre \in HeredocPre, op \in HeredocOpenerLines,
     body \in HeredocBodySeqs, post \in HeredocPost}

Texts == ValueTexts \cup LineTexts \cup HeredocTexts

(***************************************************************************)
(* The file contents searched for the declaration: at most MaxFileLines    *)
(* lines, each ended by a newline.                                         *)
(***************************************************************************)
FileLines ==
  { StartLine \o <<NL>>, <<"}", NL>>, <<" ", "}", NL>>,
    <<"x", "=", "{", NL>>, <<"x", "=", "<", "<", "E", NL>>, <<"E", NL>>,
    <<"x", "=", "\"", "a", "\"", NL>> }

FileLineSeqs == UNION {[1..n -> FileLines] : n \in 0..MaxFileLines}

Files == {Concat(ls) : ls \in FileLineSeqs}

(***************************************************************************)
(* The arguments of a direct call of find_blocks: a text of at most        *)
(* MaxAnchorLines lines and at most MaxAnchors line numbers, in or out of  *)
(* the range of the text.                                                  *)
(***************************************************************************)
AnchorLines == { StartLine \o <<NL>>, <<"}", NL>>, <<"a", NL>> }

AnchorLineSeqs == UNION {[1..n -> AnchorLines] : n \in 0..MaxAnchorLines}

AnchorFiles == {Concat(ls) : ls \in AnchorLineSeqs}

AnchorRange == (0 - MaxAnchorLines)..(MaxAnchorLines + 1)

AnchorSeqs == UNION {[1..n -> AnchorRange] : n \in 0..MaxAnchors}

(***************************************************************************)
(* The files searched for a local: one locals block, its body built of at  *)
(* most MaxLocalTokens tokens; a token is a body line (the property at     *)
(* indentation 0, 1 or 2, a blank line, another property) or the end of    *)
(* the block followed by the start of a next locals block.                 *)
(***************************************************************************)
LocalTokens ==
  { <<"}", NL>> \o LocalsLine \o <<NL>>,
    <<"x", "=", "a", NL>>, <<" ", "x", "=", "a", NL>>,
    <<" ", " ", "x", "=", "a", NL>>,
    <<NL>>, <<"a", "=", "a", NL>> }

LocalTokenSeqs == UNION {[1..n -> LocalTokens] : n \in 0..MaxLocalTokens}

LocalFiles ==
  {<<>>} \cup {LocalsLine \o <<NL>> \o Concat(ts) \o <<"}", NL>> : ts \in LocalTokenSeqs}

(***************************************************************************)
(* The texts of repeated calls of find_prop_in_block.                      *)
(***************************************************************************)
CallTexts ==
  { <<>>,
    <<"x", "=", "a", NL>>,
    <<"x", "=", "{", NL, "}", NL>>,
    <<"x", "=", "{", NL>>,
    <<"x", "=", "}", NL>>,
    <<"x", "=", "{", "]", NL>>,
    <<"x", "=", "\"", "a", NL>>,
    <<"x", "=", "\"", "\\">>,
    <<"x", "=", "<", "<", "E", NL, "a", NL, "E", NL>>,
    <<"x", "=", "<", "<", "E", NL, "a", NL>>,
    <<"x", "=", "[", NL>>,
    <<" ", "x", "=", "a", NL, "x", "=", "a", NL>> }

ScanInit ==
  /\ pc = "start"
  /\ start = 0
  /\ idx = 0
  /\ bracket_stack = <<>>
  /\ line_ended = FALSE
  /\ in_quoted = FALSE
  /\ in_heredoc = FALSE
  /\ is_escaped = FALSE
  /\ heredoc_name = <<>>
  /\ ret = <<>>
  /\ result = <<>>
  /\ exc = "None"

(* No module is being constructed.                                         *)
ModuleIdle ==
  /\ add_resource_identifier = TRUE
  /\ decls = <<>>
  /\ hm_pc = "idle"
  /\ hm_n = 1
  /\ data_parsed = <<>>
  /\ parsed_data = <<>>
  /\ hm_exc = "None"

(* No table is being made.                                                 *)
TableIdle ==
  /\ items = <<>>
  /\ skip_columns = {}
  /\ remove_empty_columns = TRUE
  /\ sort_order = "alpha-asc"
  /\ collapsible = {}
  /\ tb_pc = "idle"
  /\ header = <<>>
  /\ rows = <<>>
  /\ table = <<>>
  /\ tb_exc = "None"

(* No documentation is being written.                                      *)
WriterIdle ==
  /\ target = <<>>
  /\ generated_doc = <<>>
  /\ original_content = "None"
  /\ updated_content = "None"
  /\ changed = FALSE
  /\ w_exc = "None"
  /\ w_n = 0

OthersIdle == ModuleIdle /\ TableIdle /\ WriterIdle

BlockIdle ==
  /\ start_regex = <<>>
  /\ caller = "idle"
  /\ fb_pc = "idle"
  /\ locs = <<>>
  /\ fb_i = 1
  /\ blocks = <<>>
  /\ found = <<>>
  /\ fb_exc = "None"

ScanIdle ==
  /\ pc = "idle"
  /\ start = 0
  /\ idx = 0
  /\ bracket_stack = <<>>
  /\ line_ended = FALSE
  /\ in_quoted = FALSE
  /\ in_heredoc = FALSE
  /\ is_escaped = FALSE
  /\ heredoc_name = <<>>
  /\ ret = <<>>
  /\ result = <<>>
  /\ exc = "None"

(* A call of find: nothing located yet.                                    *)
BlockInit ==
  /\ fb_pc = "start"
  /\ locs = <<>>
  /\ fb_i = 1
  /\ blocks = <<>>
  /\ found = <<>>
  /\ fb_exc = "None"

(* A call of find_blocks itself: the line numbers are its argument.        *)
DirectInit ==
  /\ fb_pc = "blocks"
  /\ locs \in AnchorSeqs
  /\ fb_i = 1
  /\ blocks = <<>>
  /\ found = <<>>
  /\ fb_exc = "None"

(* HclLocal.find, line 176: no candidate yet, nothing logged.              *)
LocalInit ==
  /\ lf_i = 1
  /\ loc_matches = <<>>
  /\ warnings = <<>>
  /\ lf_result = <<>>

Init ==
  /\ text \in Texts
  /\ ScanInit
  /\ file = <<>>
  /\ BlockIdle
  /\ LocalInit
  /\ history = <<>>
  /\ OthersIdle

InitBlocks ==
  /\ \/ file \in Files /\ caller = "find" /\ BlockInit
     \/ file \in AnchorFiles /\ caller = "find_blocks" /\ DirectInit
  /\ start_regex = StartLine
  /\ text = <<>>
  /\ ScanIdle
  /\ LocalInit
  /\ history = <<>>
  /\ OthersIdle

InitLocal ==
  /\ file \in LocalFiles
  /\ caller = "HclLocal.find"
  /\ start_regex = LocalsLine
  /\ BlockInit
  /\ text = <<>>
  /\ ScanIdle
  /\ LocalInit
  /\ history = <<>>
  /\ OthersIdle

InitCalls ==
  /\ text \in CallTexts
  /\ ScanInit
  /\ file = <<>>
  /\ BlockIdle
  /\ LocalInit
  /\ history = <<>>
  /\ OthersIdle

(* As FindMatches, but the scan starts from whatever the locals hold: as   *)
(* if bracket_stack, the flags and ret of lines 74-80 outlived a call.     *)
FindMatchesStale ==
  /\ pc = "start"
  /\ IF PropMatches(text) = {}
       THEN /\ pc' = "done"
            /\ exc' = "IndexError"
            /\ UNCHANGED <<start, idx>>
       ELSE /\ pc' = "loop"
            /\ exc' = exc
            /\ start' = SelectedMatch(text)
            /\ idx' = SelectedMatch(text)
  /\ UNCHANGED <<text, result, bracket_stack, line_ended, in_quoted, in_heredoc,
                 is_escaped, heredoc_name, ret>>
  /\ UNCHANGED <<blockVars, localVars, history, otherVars>>

(***************************************************************************)
(* find_prop_in_block, lines 67-80: locate the property, pick the least    *)
(* indented occurrence, initialise the scan state.                         *)
(***************************************************************************)
FindMatches ==
  /\ pc = "start"
  /\ IF PropMatches(text) = {}
       THEN /\ pc' = "done"
            /\ exc' = "IndexError"
            /\ UNCHANGED <<start, idx, bracket_stack, line_ended, in_quoted,
                           in_heredoc, is_escaped, heredoc_name, ret>>
       ELSE /\ pc' = "loop"
            /\ exc' = exc
            /\ start' = SelectedMatch(text)
            /\ idx' = SelectedMatch(text)
            /\ bracket_stack' = <<>>
            /\ line_ended' = FALSE
            /\ in_quoted' = FALSE
            /\ in_heredoc' = FALSE
            /\ is_escaped' = FALSE
            /\ heredoc_name' = <<>>
            /\ ret' = <<>>
  /\ UNCHANGED <<text, result>>
  /\ UNCHANGED <<blockVars, localVars, history, otherVars>>

(***************************************************************************)
(* The branch of the if / elif chain of lines 94-126 taken for the         *)
(* character at idx.                                                       *)
(***************************************************************************)
(* As InText, but a quoted string does not count as text.                  *)
InTextHeredocOnly == in_heredoc

InText == in_quoted \/ in_heredoc

(* As Branch, but a closer that does not match the stack top is skipped.   *)
BranchLenient ==
  LET c == text[idx + 1]
  IN  IF c = "\"" /\ ~in_heredoc /\ ~is_escaped THEN "quote"
      ELSE IF c = "<" /\ ~InText /\ HeredocMatchLen(text, idx) > 0 THEN "heredoc_open"
      ELSE IF /\ in_heredoc
              /\ ~in_quoted
              /\ heredoc_name # <<>>
              /\ StartsWith(text, heredoc_name \o <<NL>>, idx)
              /\ CharAt(text, idx - 1) = NL THEN "heredoc_close"
      ELSE IF c \in Openers /\ ~in_quoted /\ ~in_heredoc THEN "push"
      ELSE IF c \in Closers /\ ~in_quoted
        THEN IF bracket_stack = <<>> THEN "index_error"
             ELSE IF BRACKETS[c] = bracket_stack[Len(bracket_stack)] THEN "pop"
             ELSE "other"
      ELSE IF c = NL THEN "newline"
      ELSE "other"

Branch ==
  LET c == text[idx + 1]
  IN  IF c = "\"" /\ ~in_heredoc /\ ~is_escaped THEN "quote"
      ELSE IF c = "<" /\ ~InText /\ HeredocMatchLen(text, idx) > 0 THEN "heredoc_open"
      ELSE IF /\ in_heredoc
              /\ ~in_quoted
              /\ heredoc_name # <<>>
              /\ StartsWith(text, heredoc_name \o <<NL>>, idx)
              /\ CharAt(text, idx - 1) = NL THEN "heredoc_close"
      ELSE IF c \in Openers /\ ~in_quoted /\ ~in_heredoc THEN "push"
      ELSE IF c \in Closers /\ ~in_quoted
        THEN IF bracket_stack = <<>> THEN "index_error"
             ELSE IF BRACKETS[c] = bracket_stack[Len(bracket_stack)] THEN "pop"
             ELSE "unmatched"
      ELSE IF c = NL THEN "newline"
      ELSE "other"

(***************************************************************************)
(* One iteration of the while loop of lines 85-128.                        *)
(***************************************************************************)
LoopIter ==
  /\ pc = "loop"
  /\ idx < Len(text)
  /\ LET c  == text[idx + 1]
         br == Branch
         n  == HeredocMatchLen(text, idx)
         popped == SubSeq(bracket_stack, 1, Len(bracket_stack) - 1)
         stop ==
           \/ br = "heredoc_close" /\ line_ended
           \/ br = "pop" /\ line_ended /\ popped = <<>>
           \/ br = "newline" /\ ~InText /\ bracket_stack = <<>>
         raised == br \in {"index_error", "unmatched"}
         skip ==
           CASE br = "heredoc_open"  -> n
             [] br = "heredoc_close" -> Len(heredoc_name) + 1
             [] OTHER                -> 0
     IN  /\ ret' = IF br = "heredoc_open"
                     THEN ret \o <<c>> \o <<"<", "<", "-">> \o HeredocMatchName(text, idx)
                     ELSE ret \o <<c>>
         /\ in_quoted' = IF br = "quote" THEN ~in_quoted ELSE in_quoted
         /\ in_heredoc' = CASE br = "heredoc_open"  -> TRUE
                            [] br = "heredoc_close" -> FALSE
                            [] OTHER                -> in_heredoc
         /\ heredoc_name' = IF br = "heredoc_open"
                              THEN HeredocMatchName(text, idx) ELSE heredoc_name
         /\ bracket_stack' = CASE br = "push" -> Append(bracket_stack, c)
                               [] br = "pop"  -> popped
                               [] OTHER       -> bracket_stack
         /\ line_ended' = IF br = "newline" THEN TRUE ELSE line_ended
         /\ idx' = IF raised THEN idx
                   ELSE IF stop THEN idx + skip
                   ELSE idx + skip + 1
         /\ is_escaped' = IF raised \/ stop THEN is_escaped
                          ELSE (c = "\\" /\ ~is_escaped)
         /\ pc' = IF raised THEN "done" ELSE IF stop THEN "post" ELSE "loop"
         /\ exc' = CASE br = "index_error" -> "IndexError"
                     [] br = "unmatched"   -> "ValueError: Unmatched brackets"
                     [] OTHER              -> exc
  /\ UNCHANGED <<text, start, result>>
  /\ UNCHANGED <<blockVars, localVars, history, otherVars>>

(* As WhileExit, but for the condition  idx <= len(text).                  *)
WhileExitLate ==
  /\ pc = "loop"
  /\ idx > Len(text)
  /\ pc' = "post"
  /\ UNCHANGED <<text, start, idx, bracket_stack, line_ended, in_quoted,
                 in_heredoc, is_escaped, heredoc_name, ret, result, exc>>
  /\ UNCHANGED <<blockVars, localVars, history, otherVars>>

(* The while condition of line 85 turns false.                             *)
WhileExit ==
  /\ pc = "loop"
  /\ idx >= Len(text)
  /\ pc' = "post"
  /\ UNCHANGED <<text, start, idx, bracket_stack, line_ended, in_quoted,
                 in_heredoc, is_escaped, heredoc_name, ret, result, exc>>
  /\ UNCHANGED <<blockVars, localVars, history, otherVars>>

(* As Finish, but without the check of lines 129-131.                      *)
FinishNoCheck ==
  /\ pc = "post"
  /\ pc' = "done"
  /\ exc' = exc
  /\ result' = Strip(StripPrefix(ret))
  /\ UNCHANGED <<text, start, idx, bracket_stack, line_ended, in_quoted,
                 in_heredoc, is_escaped, heredoc_name, ret>>
  /\ UNCHANGED <<blockVars, localVars, history, otherVars>>

(***************************************************************************)
(* Lines 129-132: fail on open brackets, else strip the prefix and return. *)
(***************************************************************************)
Finish ==
  /\ pc = "post"
  /\ pc' = "done"
  /\ IF bracket_stack # <<>>
       THEN /\ exc' = "ValueError: Unmatched brackets"
            /\ result' = result
       ELSE /\ exc' = exc
            /\ result' = Strip(StripPrefix(ret))
  /\ UNCHANGED <<text, start, idx, bracket_stack, line_ended, in_quoted,
                 in_heredoc, is_escaped, heredoc_name, ret>>
  /\ UNCHANGED <<blockVars, localVars, history, otherVars>>

Next == FindMatches \/ LoopIter \/ WhileExit \/ Finish

Spec == Init /\ [][Next]_vars

(* The interpreter always takes the next step of a call that has not       *)
(* ended.                                                                  *)
InitLive ==
  /\ text \in HeredocTexts \cup CallTexts
  /\ ScanInit
  /\ file = <<>>
  /\ BlockIdle
  /\ LocalInit
  /\ history = <<>>
  /\ OthersIdle

SpecLive == InitLive /\ [][Next]_vars /\ WF_vars(Next)

(* As Locate, but without the check of lines 135-137.                      *)
LocateNoCheck ==
  /\ fb_pc = "start"
  /\ locs' = LocsOf(file)
  /\ fb_pc' = "blocks"
  /\ fb_exc' = fb_exc
  /\ UNCHANGED <<file, start_regex, caller, fb_i, blocks, found>>
  /\ UNCHANGED <<scanVars, localVars, history, otherVars>>

(***************************************************************************)
(* SingleElementRootModel.find, lines 127-137: the line numbers of the     *)
(* matches of the start pattern; no match raises.                          *)
(***************************************************************************)
Locate ==
  /\ fb_pc = "start"
  /\ locs' = LocsOf(file)
  /\ IF LocsOf(file) = <<>>
       THEN /\ fb_pc' = "done"
            /\ fb_exc' = "ValueError: not found in file"
       ELSE /\ fb_pc' = "blocks"
            /\ fb_exc' = fb_exc
  /\ UNCHANGED <<file, start_regex, caller, fb_i, blocks, found>>
  /\ UNCHANGED <<scanVars, localVars, history, otherVars>>

(* As ExtractBlock, but a block without an end line is left out and the    *)
(* loop goes on with the next line number.                                 *)
ExtractBlockSkip ==
  /\ fb_pc = "blocks"
  /\ fb_i <= Len(locs)
  /\ LET lines == SplitLines(file)
         i     == locs[fb_i] - 1
         rest  == PySliceFrom(lines, i)
         e     == FirstEnd(rest, 1)
         err   ==
           IF lines = <<>> \/ rest = <<>> THEN "ValueError: Invalid LOC"
           ELSE IF i < 0 /\ Len(lines) + i < 0 THEN "IndexError"
           ELSE IF ~MatchesStart(rest[1]) THEN "ValueError: Invalid start regex"
           ELSE "None"
     IN  IF err # "None"
           THEN /\ fb_pc' = "done"
                /\ fb_exc' = err
                /\ UNCHANGED <<fb_i, blocks>>
           ELSE /\ fb_pc' = fb_pc
                /\ fb_exc' = fb_exc
                /\ fb_i' = fb_i + 1
                /\ blocks' = IF e = 0 THEN blocks
                             ELSE Append(blocks, Join(SubSeq(rest, 1, e)))
  /\ UNCHANGED <<file, start_regex, caller, locs, found>>
  /\ UNCHANGED <<scanVars, localVars, history, otherVars>>

(***************************************************************************)
(* find_blocks, lines 26-46: one iteration of  for loc in locs.            *)
(***************************************************************************)
ExtractBlock ==
  /\ fb_pc = "blocks"
  /\ fb_i <= Len(locs)
  /\ LET lines == SplitLines(file)
         i     == locs[fb_i] - 1
         rest  == PySliceFrom(lines, i)
         e     == FirstEnd(rest, 1)
         err   ==
           IF lines = <<>> \/ rest = <<>> THEN "ValueError: Invalid LOC"
           ELSE IF i < 0 /\ Len(lines) + i < 0 THEN "IndexError"
           ELSE IF ~MatchesStart(rest[1]) THEN "ValueError: Invalid start regex"
           ELSE IF e = 0 THEN "ValueError: Invalid end regex"
           ELSE "None"
     IN  IF err # "None"
           THEN /\ fb_pc' = "done"
                /\ fb_exc' = err
                /\ UNCHANGED <<fb_i, blocks>>
           ELSE /\ fb_pc' = fb_pc
                /\ fb_exc' = fb_exc
                /\ fb_i' = fb_i + 1
                /\ blocks' = Append(blocks, Join(SubSeq(rest, 1, e)))
  /\ UNCHANGED <<file, start_regex, caller, locs, found>>
  /\ UNCHANGED <<scanVars, localVars, history, otherVars>>

(***************************************************************************)
(* find_blocks, lines 47-50, and line 139 of input.py: the blocks go back  *)
(* to find, which pairs them with their line numbers.                      *)
(***************************************************************************)
ReturnBlocks ==
  /\ fb_pc = "blocks"
  /\ fb_i > Len(locs)
  /\ IF blocks = <<>>
       THEN /\ fb_pc' = "done"
            /\ fb_exc' = "ValueError: No blocks found"
            /\ found' = found
       ELSE /\ fb_pc' = IF caller = "HclLocal.find" THEN "candidates" ELSE "done"
            /\ fb_exc' = fb_exc
            /\ found' = IF caller = "find_blocks" THEN found
                        ELSE [k \in 1..Len(blocks) |-> <<locs[k], blocks[k]>>]
  /\ UNCHANGED <<file, start_regex, caller, locs, fb_i, blocks>>
  /\ UNCHANGED <<scanVars, localVars, history, otherVars>>

NextBlocks == Locate \/ ExtractBlock \/ ReturnBlocks

SpecBlocks == InitBlocks /\ [][NextBlocks]_vars

(***************************************************************************)
(* HclLocal.find, lines 177-189: one iteration of                          *)
(* for loc, block in block_matches.                                        *)
(***************************************************************************)
LocalScanBlock ==
  /\ fb_pc = "candidates"
  /\ lf_i <= Len(found)
  /\ LET loc     == found[lf_i][1]
         block   == found[lf_i][2]
         matches == LocalMatches(block, 0)
         key(p)  == indent(block, p)
         m0      == matches[FirstLeast(matches, key)]
     IN  IF matches = <<>>
           THEN UNCHANGED <<loc_matches, warnings>>
           ELSE /\ warnings' = IF Len(matches) > 1
                                 THEN Append(warnings, Len(matches))
                                 ELSE warnings
                /\ loc_matches' =
                     Append(loc_matches,
                            <<loc + CountNL(block, m0), block, indent(block, m0)>>)
  /\ lf_i' = lf_i + 1
  /\ UNCHANGED <<lf_result, blockVars, scanVars, history, otherVars>>

(* As LocalReturn, but without the check of lines 191-193: with no         *)
(* candidate the first located block is returned.                          *)
LocalReturnUnchecked ==
  /\ fb_pc = "candidates"
  /\ lf_i > Len(found)
  /\ fb_pc' = "done"
  /\ fb_exc' = fb_exc
  /\ IF loc_matches = <<>>
       THEN lf_result' = <<found[1]>>
       ELSE LET key(m) == m[3]
                m0     == loc_matches[FirstLeast(loc_matches, key)]
            IN  lf_result' = << <<m0[1], m0[2]>> >>
  /\ UNCHANGED <<file, start_regex, caller, locs, fb_i, blocks, found>>
  /\ UNCHANGED <<lf_i, loc_matches, warnings, scanVars, history, otherVars>>

(***************************************************************************)
(* HclLocal.find, lines 191-195: no candidate raises, else the least       *)
(* indented candidate is returned.                                         *)
(***************************************************************************)
LocalReturn ==
  /\ fb_pc = "candidates"
  /\ lf_i > Len(found)
  /\ fb_pc' = "done"
  /\ IF loc_matches = <<>>
       THEN /\ fb_exc' = "ValueError: name not found in file"
            /\ lf_result' = lf_result
       ELSE LET key(m) == m[3]
                m0     == loc_matches[FirstLeast(loc_matches, key)]
            IN  /\ fb_exc' = fb_exc
                /\ lf_result' = << <<m0[1], m0[2]>> >>
  /\ UNCHANGED <<file, start_regex, caller, locs, fb_i, blocks, found>>
  /\ UNCHANGED <<lf_i, loc_matches, warnings, scanVars, history, otherVars>>

NextLocal == Locate \/ ExtractBlock \/ ReturnBlocks \/ LocalScanBlock \/ LocalReturn

SpecLocal == InitLocal /\ [][NextLocal]_vars

(***************************************************************************)
(* A further call of find_prop_in_block after one has ended: the outcome   *)
(* of the ended call is kept, the new call gets its argument, and what     *)
(* the ended call left in its locals is still there when FindMatches       *)
(* starts.                                                                 *)
(***************************************************************************)
Call ==
  /\ pc = "done"
  /\ Len(history) < MaxCalls - 1
  /\ history' = Append(history, <<text, exc, result>>)
  /\ text' \in CallTexts
  /\ pc' = "start"
  /\ exc' = "None"
  /\ result' = <<>>
  /\ UNCHANGED <<start, idx, bracket_stack, line_ended, in_quoted, in_heredoc,
                 is_escaped, heredoc_name, ret>>
  /\ UNCHANGED <<blockVars, localVars, otherVars>>

NextCalls == FindMatches \/ LoopIter \/ WhileExit \/ Finish \/ Call

SpecCalls == InitCalls /\ [][NextCalls]_vars

Returned == pc = "done" /\ exc = "None"

BlocksReturned == fb_pc = "done" /\ fb_exc = "None"

(***************************************************************************)
(* HclModule(): every file is parsed into its own dictionaries             *)
(* (HclFile.__init__, _parse_kind), then the dictionaries of the files are *)
(* merged into those of the module (_add_kind).                            *)
(***************************************************************************)
(* The *.tf files of the module, in the order glob yields them.            *)
FileNames == <<"main.tf", "variables.tf">>

(* The kinds, in the order both constructors go through them.              *)
Kinds == <<"locals", "variable", "output", "validation", "resource">>

Names == {"a", "b"}

(* The type of the resources of the module.                                *)
ResourceType == "r"

(* A declaration of a file: its kind, its name (the identifier, for a      *)
(* resource), and whether its block is written the way the start and end   *)
(* patterns of its kind expect (header at column 0, one space before the   *)
(* brace, the closing brace alone on its line).                            *)
Decl ==
  [file : 1..Len(FileNames), kind : 1..Len(Kinds), name : Names,
   canonical : BOOLEAN]

DeclSeqs == UNION {[1..n -> Decl] : n \in 0..MaxDecls}

(* A dict: its items in insertion order.                                   *)
HasKey(data, k) == \E j \in 1..Len(data) : data[j].key = k

Get(data, k) == data[CHOOSE j \in 1..Len(data) : data[j].key = k].value

Put(data, k, v) ==
  IF HasKey(data, k)
    THEN [j \in 1..Len(data) |->
            IF data[j].key = k THEN [key |-> k, value |-> v] ELSE data[j]]
    ELSE Append(data, [key |-> k, value |-> v])

(* ParsedData(): one empty dict per kind.                                  *)
ParsedData == [k \in 1..Len(Kinds) |-> <<>>]

(* v.name of an item of the processed data: _process_resource names a      *)
(* resource type.identifier when add_resource_identifier is set, and by    *)
(* its type alone otherwise.                                               *)
ItemName(d) ==
  IF Kinds[d.kind] = "resource"
    THEN IF add_resource_identifier THEN <<ResourceType, d.name>>
                                    ELSE <<ResourceType>>
    ELSE <<d.name>>

(* allow_duplicates as both constructors pass it.                          *)
AllowDuplicates(kind) ==
  Kinds[kind] = "resource" /\ ~add_resource_identifier

(* The declarations of kind k of file f, in the order of the file.         *)
Items(f, k) ==
  SelectSeq([i \in 1..Len(decls) |-> i],
            LAMBDA i : decls[i].file = f /\ decls[i].kind = k)

RECURSIVE KindItems(_, _)
KindItems(f, k) ==
  IF k > Len(Kinds) THEN <<>> ELSE Items(f, k) \o KindItems(f, k + 1)

(* The order in which the items of all files reach the body of the loop    *)
(* of _parse_kind.                                                         *)
RECURSIVE ParseOrder(_)
ParseOrder(f) ==
  IF f > Len(FileNames) THEN <<>> ELSE KindItems(f, 1) \o ParseOrder(f + 1)

(* v.find(self._hcl): the blocks of the file whose header matches the      *)
(* start pattern made from the item; HclLocal.find returns the one         *)
(* selected candidate.                                                     *)
Find(i) ==
  LET d == decls[i]
      m == SelectSeq(Items(d.file, d.kind),
                     LAMBDA j : decls[j].name = d.name /\ decls[j].canonical)
  IN  IF Kinds[d.kind] = "locals" /\ m # <<>> THEN <<m[1]>> ELSE m

AlreadyDefined == "ValueError: Already defined"

NotFoundInFile == "ValueError: not found in file"

FoundMatches == "ValueError: Found n matches"

(* The body of the loop of _parse_kind, without the test of line 52.       *)
ParseItemOverwrite ==
  /\ hm_pc = "parse"
  /\ hm_n <= Len(ParseOrder(1))
  /\ LET i == ParseOrder(1)[hm_n]
         v == decls[i]
         match == Find(i)
     IN  IF match = <<>>
           THEN /\ hm_exc' = NotFoundInFile
                /\ hm_pc' = "done"
                /\ UNCHANGED <<hm_n, data_parsed>>
           ELSE IF Len(match) # 1
             THEN /\ hm_exc' = FoundMatches
                  /\ hm_pc' = "done"
                  /\ UNCHANGED <<hm_n, data_parsed>>
             ELSE /\ data_parsed' =
                       [data_parsed EXCEPT ![v.file][v.kind] =
                          Put(@, ItemName(v),
                              [data |-> i, loc |-> match[1], file |-> v.file])]
                  /\ hm_n' = hm_n + 1
                  /\ UNCHANGED <<hm_pc, hm_exc>>
  /\ UNCHANGED <<add_resource_identifier, decls, parsed_data>>
  /\ UNCHANGED <<scanVars, blockVars, localVars, history, tableVars,
                 writerVars>>

(* One iteration of the loop of _parse_kind.                               *)
ParseItem ==
  /\ hm_pc = "parse"
  /\ hm_n <= Len(ParseOrder(1))
  /\ LET i == ParseOrder(1)[hm_n]
         v == decls[i]
         data == data_parsed[v.file][v.kind]
         match == Find(i)
     IN  IF HasKey(data, ItemName(v)) /\ ~AllowDuplicates(v.kind)
           THEN /\ hm_exc' = AlreadyDefined
                /\ hm_pc' = "done"
                /\ UNCHANGED <<hm_n, data_parsed>>
           ELSE IF match = <<>>
             THEN /\ hm_exc' = NotFoundInFile
                  /\ hm_pc' = "done"
                  /\ UNCHANGED <<hm_n, data_parsed>>
             ELSE IF Len(match) # 1
               THEN /\ hm_exc' = FoundMatches
                    /\ hm_pc' = "done"
                    /\ UNCHANGED <<hm_n, data_parsed>>
               ELSE /\ data_parsed' =
                         [data_parsed EXCEPT ![v.file][v.kind] =
                            Put(@, ItemName(v),
                                [data |-> i, loc |-> match[1],
                                 file |-> v.file])]
                    /\ hm_n' = hm_n + 1
                    /\ UNCHANGED <<hm_pc, hm_exc>>
  /\ UNCHANGED <<add_resource_identifier, decls, parsed_data>>
  /\ UNCHANGED <<scanVars, blockVars, localVars, history, tableVars,
                 writerVars>>

(* Every file is parsed: the module starts with empty dictionaries.        *)
StartMerge ==
  /\ hm_pc = "parse"
  /\ hm_n > Len(ParseOrder(1))
  /\ parsed_data' = ParsedData
  /\ hm_pc' = "merge"
  /\ hm_n' = 1
  /\ UNCHANGED <<add_resource_identifier, decls, data_parsed, hm_exc>>
  /\ UNCHANGED <<scanVars, blockVars, localVars, history, tableVars,
                 writerVars>>

(* The items of the dictionaries of the files, in the order in which they  *)
(* reach the body of the loop of _add_kind.                                *)
RECURSIVE KindEntries(_, _)
KindEntries(f, k) ==
  IF k > Len(Kinds) THEN <<>>
  ELSE [j \in 1..Len(data_parsed[f][k]) |->
          [kind |-> k, key |-> data_parsed[f][k][j].key,
           value |-> data_parsed[f][k][j].value]]
       \o KindEntries(f, k + 1)

RECURSIVE MergeOrder(_)
MergeOrder(f) ==
  IF f > Len(FileNames) THEN <<>> ELSE KindEntries(f, 1) \o MergeOrder(f + 1)

(* One iteration of the loop of _add_kind.                                 *)
AddItem ==
  /\ hm_pc = "merge"
  /\ hm_n <= Len(MergeOrder(1))
  /\ LET e == MergeOrder(1)[hm_n]
         data == parsed_data[e.kind]
     IN  IF HasKey(data, e.key) /\ ~AllowDuplicates(e.kind)
           THEN /\ hm_exc' = AlreadyDefined
                /\ hm_pc' = "done"
                /\ UNCHANGED <<hm_n, parsed_data>>
           ELSE /\ parsed_data' =
                     [parsed_data EXCEPT ![e.kind] = Put(@, e.key, e.value)]
                /\ hm_n' = hm_n + 1
                /\ UNCHANGED <<hm_pc, hm_exc>>
  /\ UNCHANGED <<add_resource_identifier, decls, data_parsed>>
  /\ UNCHANGED <<scanVars, blockVars, localVars, history, tableVars,
                 writerVars>>

(* The constructor of the module returns.                                  *)
ModuleDone ==
  /\ hm_pc = "merge"
  /\ hm_n > Len(MergeOrder(1))
  /\ hm_pc' = "done"
  /\ UNCHANGED <<add_resource_identifier, decls, hm_n, data_parsed,
                 parsed_data, hm_exc>>
  /\ UNCHANGED <<scanVars, blockVars, localVars, history, tableVars,
                 writerVars>>

InitModule ==
  /\ add_resource_identifier \in BOOLEAN
  /\ decls \in DeclSeqs
  /\ hm_pc = "parse"
  /\ hm_n = 1
  /\ data_parsed = [f \in 1..Len(FileNames) |-> ParsedData]
  /\ parsed_data = ParsedData
  /\ hm_exc = "None"
  /\ text = <<>>
  /\ ScanIdle
  /\ file = <<>>
  /\ BlockIdle
  /\ LocalInit
  /\ history = <<>>
  /\ TableIdle
  /\ WriterIdle

NextModule == ParseItem \/ StartMerge \/ AddItem \/ ModuleDone

SpecModule == InitModule /\ [][NextModule]_vars

ModuleBuilt == hm_pc = "done" /\ hm_exc = "None"

(***************************************************************************)
(* Formatter._make_table for a table of outputs.  A cell is a string,      *)
(* written as the sequence of its parts.                                   *)
(***************************************************************************)
(* row_item.model_dump().keys() of OutputRow: the computed fields in the   *)
(* order of their definition.                                              *)
Fields == <<"name", "description", "value", "precondition", "postcondition">>

(* str.title() on the names of the fields.                                 *)
Title ==
  [name |-> "Name", description |-> "Description", value |-> "Value",
   precondition |-> "Precondition", postcondition |-> "Postcondition"]

(* The names of the items; a dict holds a name once.                       *)
ItemNames == <<"a", "b", "c", "d">>

(* The formatted fields of one item: the link and the value are never      *)
(* empty, the description and the conditions may be.                       *)
RowItems ==
  [name : {<<ItemNames[n]>> : n \in 1..MaxRows},
   description : {<<>>, <<"text">>},
   value : {<<"<pre>", "v", "</pre>">>},
   precondition : {<<>>, <<"pre">>},
   postcondition : {<<>>, <<"post">>}]

ItemSeqs ==
  {s \in UNION {[1..n -> RowItems] : n \in 1..MaxRows} :
     \A i, j \in 1..Len(s) : s[i].name = s[j].name => i = j}

SkipColumnSets == {{}, {"value"}, {"description"}, {"name"}}

(* The four collapsible_long_* settings, as the set of the columns they    *)
(* name: all on (the default) or all off.                                  *)
CollapsibleSets == {{"Value", "Type", "Default", "Description"}, {}}

(* if_index: the 0-based index of item in lst, -1 when it is absent.       *)
if_index(lst, item) ==
  IF \E j \in 1..Len(lst) : lst[j] = item
    THEN (CHOOSE j \in 1..Len(lst) :
            lst[j] = item /\ \A h \in 1..(j - 1) : lst[h] # item) - 1
    ELSE -1

(* The fields that are not skipped, in order.                              *)
ShownFields == SelectSeq(Fields, LAMBDA v : v \notin skip_columns)

(* The columns of the rows filtered by any(v): the 1-based positions of   *)
(* the columns that have a non-empty cell in some row.                    *)
KeptColumns(rs) ==
  SelectSeq([c \in 1..Len(rs[1]) |-> c],
            LAMBDA c : \E r \in 1..Len(rs) : rs[r][c] # <<>>)

(* The first parts of the cells in the order of str: "<" sorts before the  *)
(* "[" that opens the link of a name, and that before the lower case; the  *)
(* empty string sorts first.                                               *)
FirstCells == <<"<pre>", "a", "b", "c", "d", "post", "pre", "text">>

Rank(row) ==
  IF row[1] = <<>> THEN 0
  ELSE CHOOSE n \in 1..Len(FirstCells) : FirstCells[n] = row[1][1]

(* list.sort(key=lambda x: x[0]): stable, ascending.                       *)
RECURSIVE SortRowsBy(_)
SortRowsBy(rs) ==
  IF rs = <<>> THEN <<>>
  ELSE LET m == CHOOSE i \in 1..Len(rs) :
                  /\ \A j \in 1..Len(rs) : Rank(rs[i]) <= Rank(rs[j])
                  /\ \A j \in 1..(i - 1) : Rank(rs[j]) > Rank(rs[i])
       IN  <<rs[m]>> \o
           SortRowsBy([j \in 1..(Len(rs) - 1) |->
                         IF j < m THEN rs[j] ELSE rs[j + 1]])

(* The new content of one cell in _collapse_column.  No cell of the model  *)
(* starts or ends with <br/>, contains one, or is longer than              *)
(* collapsible_long_threshold.                                             *)
CollapseCell(elem, keep_first_line) ==
  IF keep_first_line THEN elem \o <<"<br/>">> ELSE elem

IndexError == "IndexError"

(* _collapse_column on the table so far, when nothing was raised and the   *)
(* setting of the column is on: the cells of the column are replaced, or   *)
(* IndexError is raised at a row that has no cell at the index the column  *)
(* has in the header.                                                      *)
CollapseColumn(t, column, keep_first_line) ==
  LET idx_ == if_index(t.table[1], column)
  IN  IF t.exc # "None" \/ column \notin collapsible \/ idx_ = -1 THEN t
      ELSE IF \E r \in 2..Len(t.table) : idx_ >= Len(t.table[r])
        THEN [t EXCEPT !.exc = IndexError]
        ELSE [t EXCEPT !.table =
                [r \in 1..Len(t.table) |->
                   IF r = 1 THEN t.table[r]
                   ELSE [c \in 1..Len(t.table[r]) |->
                           IF c = idx_ + 1
                             THEN CollapseCell(t.table[r][c], keep_first_line)
                             ELSE t.table[r][c]]]]

(* Lines 68-87: the header and one row per item.                           *)
MakeRows ==
  /\ tb_pc = "rows"
  /\ header' = [c \in 1..Len(ShownFields) |-> Title[ShownFields[c]]]
  /\ rows' = [r \in 1..Len(items) |->
                [c \in 1..Len(ShownFields) |-> items[r][ShownFields[c]]]]
  /\ tb_pc' = "remove"
  /\ UNCHANGED <<items, skip_columns, remove_empty_columns, sort_order,
                 collapsible, table, tb_exc>>
  /\ UNCHANGED <<scanVars, blockVars, localVars, history, moduleVars,
                 writerVars>>

(* Lines 89-93: the columns that are empty in every row leave the rows.    *)
RemoveEmptyColumns ==
  /\ tb_pc = "remove"
  /\ IF remove_empty_columns
       THEN rows' = [r \in 1..Len(rows) |->
                       [c \in 1..Len(KeptColumns(rows)) |->
                          rows[r][KeptColumns(rows)[c]]]]
       ELSE UNCHANGED rows
  /\ tb_pc' = "sort"
  /\ UNCHANGED <<items, skip_columns, remove_empty_columns, sort_order,
                 collapsible, header, table, tb_exc>>
  /\ UNCHANGED <<scanVars, blockVars, localVars, history, moduleVars,
                 writerVars>>

(* Lines 95-98: the rows are sorted by their first cell and the table is   *)
(* put together.                                                           *)
SortRows ==
  /\ tb_pc = "sort"
  /\ rows' = IF sort_order = "alpha-asc" THEN SortRowsBy(rows) ELSE rows
  /\ table' = <<header>> \o rows'
  /\ tb_pc' = "collapse"
  /\ UNCHANGED <<items, skip_columns, remove_empty_columns, sort_order,
                 collapsible, header, tb_exc>>
  /\ UNCHANGED <<scanVars, blockVars, localVars, history, moduleVars,
                 writerVars>>

(* Lines 100-114: the long cells are collapsed and the table is returned.  *)
CollapseColumns ==
  /\ tb_pc = "collapse"
  /\ LET t == CollapseColumn(
                CollapseColumn(
                  CollapseColumn(
                    CollapseColumn([table |-> table, exc |-> "None"],
                                   "Value", FALSE),
                    "Type", FALSE),
                  "Default", FALSE),
                "Description", TRUE)
     IN  table' = t.table /\ tb_exc' = t.exc
  /\ tb_pc' = "done"
  /\ UNCHANGED <<items, skip_columns, remove_empty_columns, sort_order,
                 collapsible, header, rows>>
  /\ UNCHANGED <<scanVars, blockVars, localVars, history, moduleVars,
                 writerVars>>

InitTable ==
  /\ items \in ItemSeqs
  /\ skip_columns \in SkipColumnSets
  /\ remove_empty_columns \in BOOLEAN
  /\ sort_order \in {"alpha-asc", "none"}
  /\ collapsible \in CollapsibleSets
  /\ tb_pc = "rows"
  /\ header = <<>>
  /\ rows = <<>>
  /\ table = <<>>
  /\ tb_exc = "None"
  /\ text = <<>>
  /\ ScanIdle
  /\ file = <<>>
  /\ BlockIdle
  /\ LocalInit
  /\ history = <<>>
  /\ ModuleIdle
  /\ WriterIdle

NextTable == MakeRows \/ RemoveEmptyColumns \/ SortRows \/ CollapseColumns

SpecTable == InitTable /\ [][NextTable]_vars

TableMade == tb_pc = "done" /\ tb_exc = "None"

(***************************************************************************)
(* Writer.write and _insert_marked_block.  A marker is one character of    *)
(* the model: no part of it is white space at the ends of a line.          *)
(***************************************************************************)
(* marker('START') and marker('END').                                      *)
start_marker == "<!-- TOFU_DOCS START -->"

end_marker == "<!-- TOFU_DOCS END -->"

(* settings.target_config.insert_position: InsertPosition has one value.   *)
insert_position == "bottom"

TargetLineSet ==
  {<<start_marker>>, <<end_marker>>, <<" ", start_marker>>,
   <<" ", end_marker>>, <<>>, <<"t">>}

TargetLineSeqs == UNION {[1..n -> TargetLineSet] : n \in 0..MaxTargetLines}

(* The target file, with and without a newline at its end.                 *)
Targets ==
  {Join(ls) : ls \in TargetLineSeqs} \cup
  {Join(ls) \o <<NL>> : ls \in TargetLineSeqs}

(* The generated documentation; the last one has a marker line.            *)
Docs ==
  {<<>>, <<"d">>, <<"d", NL>>, <<" ", "d", NL, NL>>, <<start_marker, NL>>}

InvalidInsertPosition == "ValueError: Invalid insert position"

InvalidMarkerPositions == "ValueError: Invalid marker positions in target"

(* _insert_marked_block(content, docs): the new lines, or the error.       *)
InsertMarkedBlock(content, docs) ==
  LET start_ == if_index(content, <<start_marker>>)
      end_ == if_index(content, <<end_marker>>)
  IN  IF start_ = -1 /\ end_ = -1
        THEN IF insert_position = "bottom"
               THEN [exc |-> "None",
                     lines |-> content \o <<<<start_marker>>>> \o
                               SplitLines(docs) \o <<<<end_marker>>>>]
               ELSE [exc |-> InvalidInsertPosition, lines |-> <<>>]
        ELSE IF start_ = -1 \/ end_ = -1 \/ start_ > end_
          THEN [exc |-> InvalidMarkerPositions, lines |-> <<>>]
          ELSE [exc |-> "None",
                lines |-> SubSeq(content, 1, start_ + 1) \o SplitLines(docs) \o
                          PySliceFrom(content, end_)]

(* Writer.write(): the target is read, the block is inserted, and the      *)
(* file is written when its content differs.                               *)
Write ==
  /\ w_exc = "None"
  /\ w_n < MaxWrites
  /\ w_n' = w_n + 1
  /\ original_content' = target
  /\ LET r == InsertMarkedBlock(SplitLines(target), generated_doc)
     IN  IF r.exc # "None"
           THEN /\ w_exc' = r.exc
                /\ UNCHANGED <<updated_content, changed, target>>
           ELSE /\ updated_content' = Strip(Join(r.lines)) \o <<NL>>
                /\ changed' = (target # updated_content')
                /\ target' = IF changed' THEN updated_content' ELSE target
                /\ UNCHANGED w_exc
  /\ UNCHANGED generated_doc
  /\ UNCHANGED <<scanVars, blockVars, localVars, history, moduleVars,
                 tableVars>>

InitWriter ==
  /\ target \in Targets
  /\ generated_doc \in Docs
  /\ original_content = "None"
  /\ updated_content = "None"
  /\ changed = FALSE
  /\ w_exc = "None"
  /\ w_n = 0
  /\ text = <<>>
  /\ ScanIdle
  /\ file = <<>>
  /\ BlockIdle
  /\ LocalInit
  /\ history = <<>>
  /\ ModuleIdle
  /\ TableIdle

NextWriter == Write

SpecWriter == InitWriter /\ [][NextWriter]_vars

TypeOK ==
  /\ pc \in {"idle", "start", "loop", "post", "done"}
  /\ idx \in 0..(Len(text) + 1)
  /\ exc \in {"None", "IndexError", "ValueError: Unmatched brackets"}
  /\ fb_pc \in {"idle", "start", "blocks", "candidates", "done"}
  /\ caller \in {"idle", "find", "find_blocks", "HclLocal.find"}

(***************************************************************************)
(* Reference notions used to state the properties.                         *)
(***************************************************************************)
UnmatchedBracket == "ValueError: Unmatched brackets"

(* r occurs in t as one contiguous substring.                              *)
IsSubstring(r, t) ==
  \E i \in 0..Len(t) : i + Len(r) <= Len(t) /\ SubSeq(t, i + 1, i + Len(r)) = r

(* The number of consecutive backslashes that end right before offset i.   *)
RECURSIVE BackslashesBefore(_, _)
BackslashesBefore(s, i) ==
  IF i > 0 /\ s[i] = "\\" THEN 1 + BackslashesBefore(s, i - 1) ELSE 0

(* Offset i of s starts a line that consists of exactly the identifier     *)
(* name (after indentation when the heredoc was opened with <<-).          *)
IsTerminatorLine(s, i, name, dash) ==
  LET a == IF dash THEN SkipWhile(s, i, {" "}) ELSE i
  IN  /\ (i = 0 \/ s[i] = NL)
      /\ StartsWith(s, name, a)
      /\ (a + Len(name) = Len(s) \/ CharAt(s, a + Len(name)) = NL)

(* The brackets of s[i:] are balanced and properly nested when characters  *)
(* of quoted strings and of heredocs (from the opener to the terminator    *)
(* line) are ignored.  hd is <<>> or <<name, dash>> of the open heredoc;    *)
(* closed asks in addition that no string or heredoc is left open.         *)
RECURSIVE BalancedFrom(_, _, _, _, _, _, _)
BalancedFrom(s, i, stack, inq, esc, hd, closed) ==
  IF i >= Len(s) THEN stack = <<>> /\ (closed => (~inq /\ hd = <<>>))
  ELSE LET c  == s[i + 1]
           e2 == (c = "\\" /\ ~esc)
           n  == HeredocMatchLen(s, i)
       IN  IF hd # <<>>
             THEN IF IsTerminatorLine(s, i, hd[1], hd[2])
                    THEN BalancedFrom(s, IndexFrom(s, i, NL), stack, FALSE, FALSE,
                                      <<>>, closed)
                    ELSE BalancedFrom(s, i + 1, stack, FALSE, FALSE, hd, closed)
           ELSE IF inq
             THEN BalancedFrom(s, i + 1, stack, ~(c = "\"" /\ ~esc), e2, hd, closed)
           ELSE IF c = "\"" /\ ~esc
             THEN BalancedFrom(s, i + 1, stack, TRUE, e2, hd, closed)
           ELSE IF c = "<" /\ n > 0
             THEN BalancedFrom(s, i + n, stack, FALSE, FALSE,
                               <<HeredocMatchName(s, i), CharAt(s, i + 2) = "-">>, closed)
           ELSE IF c \in Openers
             THEN BalancedFrom(s, i + 1, Append(stack, c), inq, e2, hd, closed)
           ELSE IF c \in Closers
             THEN /\ stack # <<>>
                  /\ BRACKETS[c] = stack[Len(stack)]
                  /\ BalancedFrom(s, i + 1, SubSeq(stack, 1, Len(stack) - 1), inq, e2, hd, closed)
           ELSE BalancedFrom(s, i + 1, stack, inq, e2, hd, closed)

Balanced(s) == BalancedFrom(s, 0, <<>>, FALSE, FALSE, <<>>, FALSE)

(* s is well formed: balanced, every string and heredoc closed.            *)
WellFormed(s) == BalancedFrom(s, 0, <<>>, FALSE, FALSE, <<>>, TRUE)

(* The character the loop is about to read.                                *)
Reading(cs) == pc = "loop" /\ idx < Len(text) /\ text[idx + 1] \in cs

StackTop == bracket_stack[Len(bracket_stack)]

(***************************************************************************)
(* C1  Heredoc round-trip: when the value of the property is a heredoc     *)
(* (opener <<E or <<-E, newline, body lines, terminator line E), the scan  *)
(* returns the literal source text of the value: opener as written, the    *)
(* newline after it, every body line, the complete terminator.             *)
(***************************************************************************)
HeredocOpeners == {<<"<", "<", "E">>, <<"<", "<", "-", "E">>}

HeredocBodies ==
  {<<>>, <<NL>>} \cup {<<c, NL>> : c \in {" ", "\"", "\\"}}

HeredocValues ==
  {op \o <<NL>> \o body \o <<"E">> : op \in HeredocOpeners, body \in HeredocBodies}

C1_HeredocRoundTrip ==
  \A v \in HeredocValues :
    (pc = "done" /\ text = PropHead \o v \o <<NL>>) =>
      (exc = "None" /\ result = v)

(***************************************************************************)
(* C2  Outer selection: the scan starts at an occurrence of  x =  with the *)
(* fewest leading spaces among all occurrences, and for an outer  x = {    *)
(* around a nested  x = a  it returns the text of the outer object, also   *)
(* when the nested occurrence comes first in the text.                     *)
(***************************************************************************)
NestedCases ==
  { << <<"x", "=", "{", NL, " ", "x", "=", "a", NL, "}", NL>>,
       <<"{", NL, " ", "x", "=", "a", NL, "}">> >>,
    << <<" ", "x", "=", "{", NL, " ", " ", "x", "=", "a", NL, " ", "}", NL>>,
       <<"{", NL, " ", " ", "x", "=", "a", NL, " ", "}">> >>,
    << <<" ", "x", "=", "a", NL, "x", "=", "{", NL, "}", NL>>,
       <<"{", NL, "}">> >>,
    << <<" ", " ", "x", "=", "a", NL, " ", "x", "=", "{", NL, " ", "}", NL>>,
       <<"{", NL, " ", "}">> >> }

C2_OuterSelection ==
  /\ (pc \in {"loop", "post", "done"} /\ PropMatches(text) # {}) =>
       /\ start \in PropMatches(text)
       /\ \A q \in PropMatches(text) :
            LeadingSpaces(text, start) <= LeadingSpaces(text, q)
  /\ \A nc \in NestedCases :
       (pc = "done" /\ text = nc[1]) => (exc = "None" /\ result = nc[2])

C2_Witness ==
  /\ Returned
  /\ Cardinality(PropMatches(text)) > 1
  /\ \E q \in PropMatches(text) :
       q < start /\ LeadingSpaces(text, q) > LeadingSpaces(text, start)
  /\ result # <<>> /\ result[1] = "{" /\ result[Len(result)] = "}"

(***************************************************************************)
(* C3  Escaped quotes: while no heredoc is open, reading a double quote    *)
(* toggles in_quoted if and only if the quote is preceded in the text by   *)
(* an even number of consecutive backslashes.                              *)
(***************************************************************************)
C3_EscapedQuote ==
  [][(Reading({"\""}) /\ ~in_heredoc) =>
       ((in_quoted' # in_quoted) <=> (BackslashesBefore(text, idx) % 2 = 0))]_vars

(***************************************************************************)
(* C4  Unmatched bracket failure: a scan that has reached the end of the   *)
(* text with a non-empty bracket stack has failed with UnmatchedBracket    *)
(* and has returned nothing.                                               *)
(***************************************************************************)
C4_UnmatchedAtEnd ==
  (pc = "done" /\ idx >= Len(text) /\ bracket_stack # <<>>) =>
    (exc = UnmatchedBracket /\ result = <<>>)

C4_Witness ==
  /\ pc = "done"
  /\ idx >= Len(text)
  /\ bracket_stack # <<>>
  /\ exc = UnmatchedBracket

(***************************************************************************)
(* C5  A closing bracket read outside quotes and heredocs while the        *)
(* bracket stack is empty makes the scan fail with UnmatchedBracket.       *)
(***************************************************************************)
C5_CloserOnEmptyStack ==
  [][(Reading(Closers) /\ ~in_quoted /\ ~in_heredoc /\ bracket_stack = <<>>) =>
       (pc' = "done" /\ exc' = UnmatchedBracket)]_vars

(***************************************************************************)
(* C6  A closing bracket read outside quotes and heredocs that does not    *)
(* match the top of a non-empty stack makes the scan fail with             *)
(* UnmatchedBracket: no pop, no skip, no further character is read.        *)
(***************************************************************************)
C6_MismatchedCloser ==
  [][(/\ Reading(Closers) /\ ~in_quoted /\ ~in_heredoc
      /\ bracket_stack # <<>>
      /\ BRACKETS[text[idx + 1]] # StackTop) =>
       (/\ pc' = "done"
        /\ exc' = UnmatchedBracket
        /\ bracket_stack' = bracket_stack
        /\ idx' = idx
        /\ result' = <<>>)]_vars

C6_Witness ==
  /\ pc = "done"
  /\ exc = UnmatchedBracket
  /\ idx < Len(text)
  /\ text[idx + 1] \in Closers
  /\ ret # <<>> /\ ret[Len(ret)] = text[idx + 1]
  /\ ~in_quoted /\ ~in_heredoc
  /\ bracket_stack # <<>>
  /\ BRACKETS[text[idx + 1]] # StackTop

(***************************************************************************)
(* C7  While a heredoc is open, reading a bracket character neither        *)
(* changes the bracket stack nor makes the scan fail (stated for well      *)
(* formed block texts).                                                    *)
(***************************************************************************)
C7_HeredocBrackets ==
  [][(Reading(Openers \cup Closers) /\ in_heredoc /\ WellFormed(text)) =>
       (bracket_stack' = bracket_stack /\ exc' = "None")]_vars

(***************************************************************************)
(* C8  Balance invariant: the text collected by a successful scan of a     *)
(* well formed block (the returned value together with its  x =  prefix)   *)
(* has balanced brackets outside quoted strings and heredocs.              *)
(***************************************************************************)
C8_Balance == (Returned /\ WellFormed(text)) => Balanced(ret)

(***************************************************************************)
(* C9  Verbatim result: the value returned by a successful scan of a well  *)
(* formed block occurs in the block as one contiguous substring.           *)
(***************************************************************************)
C9_Verbatim == (Returned /\ WellFormed(text)) => IsSubstring(result, text)

(***************************************************************************)
(* C10  Block balance invariant: every block find returns for a well       *)
(* formed file has balanced brackets outside quoted strings and heredocs.  *)
(***************************************************************************)
C10_BlockBalance ==
  (BlocksReturned /\ WellFormed(file)) => \A k \in 1..Len(found) : Balanced(found[k][2])

(***************************************************************************)
(* C11: whenever find_blocks succeeds on a non-empty sequence of line      *)
(* numbers it returns one block per line number, in their order, and the   *)
(* block of a line number consists of the lines of the text from that      *)
(* line through the first line at or after it that matches the end         *)
(* pattern: its first line matches the start pattern, its last line the    *)
(* end pattern, and no line before the last matches the end pattern.       *)
(***************************************************************************)
IsBlockAt(lines, a, block) ==
  /\ a \in 1..Len(lines)
  /\ MatchesStart(lines[a])
  /\ \E e \in a..Len(lines) :
       /\ MatchesEnd(lines[e])
       /\ \A j \in a..(e - 1) : ~MatchesEnd(lines[j])
       /\ block = Join(SubSeq(lines, a, e))

C11_ExtractionResult ==
  (BlocksReturned /\ caller \in {"find", "find_blocks"} /\ locs # <<>>) =>
    /\ Len(blocks) = Len(locs)
    /\ \A k \in 1..Len(locs) : IsBlockAt(SplitLines(file), locs[k], blocks[k])

(***************************************************************************)
(* C12: the line numbers find reports are, top to bottom, the 1-based      *)
(* numbers of the lines of the file that match the start pattern: a match  *)
(* with n newline characters before it is reported as line n + 1.          *)
(***************************************************************************)
StartLineNumbers(lines) == {i \in 1..Len(lines) : MatchesStart(lines[i])}

C12_AnchorLineCounting ==
  (caller = "find" /\ fb_pc # "start") =>
    /\ locs = Ascending(StartLineNumbers(SplitLines(file)))
    /\ \A k \in 1..Len(locs) :
         Cardinality({j \in 1..Len(file) :
                        file[j] = NL /\ j <= Ascending(StartMatches(file))[k]})
           = locs[k] - 1

C12_Witness ==
  /\ caller = "find"
  /\ fb_pc = "blocks"
  /\ Len(locs) >= 2
  /\ locs[1] > 1
  /\ locs[2] = MaxFileLines

LocalReturned == caller = "HclLocal.find" /\ fb_pc = "done" /\ fb_exc = "None"

(***************************************************************************)
(* C13: when HclLocal.find has found the local in two candidate locals     *)
(* blocks, with indentation 0 in one and 2 in the other, it returns the    *)
(* block of the indentation-0 candidate and has logged a warning that      *)
(* states that two candidates were found.                                  *)
(***************************************************************************)
C13_TwoCandidates ==
  (/\ LocalReturned
   /\ Len(loc_matches) = 2
   /\ {loc_matches[1][3], loc_matches[2][3]} = {0, 2}) =>
    /\ \E k \in 1..2 : loc_matches[k][3] = 0 /\ lf_result = << <<loc_matches[k][1], loc_matches[k][2]>> >>
    /\ \E w \in 1..Len(warnings) : warnings[w] = 2

(***************************************************************************)
(* C14: among the located locals blocks that contain the property,         *)
(* HclLocal.find returns the one whose property line has the fewest        *)
(* leading whitespace characters on that line, the first of them in        *)
(* document order when several tie, and it returns exactly one pair.       *)
(***************************************************************************)
(* The leading whitespace of the property lines of a block.                *)
PropertyLineIndents(block) ==
  LET lines == SplitLines(block)
  IN  {SkipWhile(lines[i], 0, {" "}) : i \in {j \in 1..Len(lines) : PropMatchEnd(lines[j], 0) >= 0}}

LeastIndent(block) ==
  CHOOSE n \in PropertyLineIndents(block) : \A m \in PropertyLineIndents(block) : n <= m

C14_Selection ==
  LocalReturned =>
    LET C == {k \in 1..Len(found) : PropertyLineIndents(found[k][2]) # {}}
    IN  /\ Len(lf_result) = 1
        /\ \E k \in C :
             /\ lf_result[1][2] = found[k][2]
             /\ \A j \in C :
                  \/ LeastIndent(found[k][2]) < LeastIndent(found[j][2])
                  \/ LeastIndent(found[k][2]) = LeastIndent(found[j][2]) /\ k <= j

(* The NotFound failures of the code: the ValueErrors of input.py lines    *)
(* 136 and 192, '... not found in file'.                                   *)
NotFound == {"ValueError: not found in file", "ValueError: name not found in file"}

(***************************************************************************)
(* C15: when the block has no line-start occurrence of the property        *)
(* followed by =, find_prop_in_block fails with NotFound: it returns no    *)
(* value and fails with no other kind of error.                            *)
(***************************************************************************)
C15_PropertyAbsent ==
  (pc = "done" /\ PropMatches(text) = {}) => (exc \in NotFound /\ result = <<>>)

(* The failures of find_blocks, by the messages of lines 30, 33, 44.       *)
InvalidAnchor == {"ValueError: Invalid LOC", "ValueError: Invalid start regex"}

UnterminatedBlock == "ValueError: Invalid end regex"

(* Line a of the text matches the start pattern and no line from a on      *)
(* matches the end pattern.                                                *)
UnterminatedAt(lines, a) ==
  /\ a \in 1..Len(lines)
  /\ MatchesStart(lines[a])
  /\ \A j \in a..Len(lines) : ~MatchesEnd(lines[j])

(***************************************************************************)
(* C16: when find_blocks comes to a line number whose block runs to the    *)
(* end of the text without a line matching the end pattern, it fails with  *)
(* UnterminatedBlock, and after that failure nothing more happens: no      *)
(* blocks are returned, not even those of the line numbers before it.      *)
(***************************************************************************)
C16_Unterminated ==
  [][ /\ (/\ fb_pc = "blocks"
          /\ fb_i <= Len(locs)
          /\ UnterminatedAt(SplitLines(file), locs[fb_i]))
         => (fb_pc' = "done" /\ fb_exc' = UnterminatedBlock /\ found' = <<>>)
      /\ fb_exc # UnterminatedBlock ]_vars

C16_Witness ==
  /\ fb_pc = "done"
  /\ fb_exc = UnterminatedBlock
  /\ blocks # <<>>
  /\ found = <<>>

(***************************************************************************)
(* C17: when find_blocks comes to a line number that lies outside          *)
(* 1..number of lines of the text, or whose line does not match the start  *)
(* pattern, it fails with InvalidAnchor and appends no block for it.       *)
(***************************************************************************)
IsInvalidAnchor(lines, a) == a \notin 1..Len(lines) \/ ~MatchesStart(lines[a])

C17_InvalidAnchor ==
  [][ (/\ fb_pc = "blocks"
       /\ fb_i <= Len(locs)
       /\ IsInvalidAnchor(SplitLines(file), locs[fb_i]))
      => (fb_pc' = "done" /\ fb_exc' \in InvalidAnchor /\ blocks' = blocks) ]_vars

(***************************************************************************)
(* C18: when no line of the file matches the start pattern,                *)
(* SingleElementRootModel.find fails with NotFound in its first step,      *)
(* before find_blocks is called, and a call of find that returns never     *)
(* returns the empty list.                                                 *)
(***************************************************************************)
C18_LocateNotFound ==
  [][ /\ (/\ caller = "find"
          /\ fb_pc = "start"
          /\ StartLineNumbers(SplitLines(file)) = {})
         => (/\ fb_pc' = "done"
             /\ fb_exc' \in NotFound
             /\ fb_i' = 1 /\ blocks' = <<>> /\ found' = <<>>)
      /\ (caller = "find" /\ fb_pc' = "done" /\ fb_exc' = "None") => found' # <<>> ]_vars

C18_Witness ==
  /\ caller = "find"
  /\ fb_pc = "done"
  /\ fb_exc \in NotFound
  /\ file # <<>>
  /\ blocks = <<>>

(***************************************************************************)
(* C19: when none of the located locals blocks has a line with the         *)
(* property, HclLocal.find fails with NotFound and returns nothing, and    *)
(* the block of a pair it returns always has a line with the property.     *)
(***************************************************************************)
HasProperty(block) == PropertyLineIndents(block) # {}

C19_LocalNotFound ==
  (caller = "HclLocal.find" /\ fb_pc = "done" /\ found # <<>>) =>
    /\ (\A k \in 1..Len(found) : ~HasProperty(found[k][2]))
         => (fb_exc = "ValueError: name not found in file" /\ lf_result = <<>>)
    /\ fb_exc = "None"
         => (Len(lf_result) = 1 /\ HasProperty(lf_result[1][2]))

C19_Witness ==
  /\ caller = "HclLocal.find"
  /\ fb_pc = "done"
  /\ Len(found) = 2
  /\ \E k \in 1..2 : Len(SplitLines(found[k][2])) > 2
  /\ fb_exc \in NotFound
  /\ lf_result = <<>>

(***************************************************************************)
(* C20: a call of find_prop_in_block ends as every earlier call on the     *)
(* same block and property ended, with the same returned string or the     *)
(* same failure, whatever was scanned in between.                          *)
(***************************************************************************)
C20_Idempotence ==
  pc = "done" =>
    \A k \in 1..Len(history) :
      history[k][1] = text => (history[k][2] = exc /\ history[k][3] = result)

C20_Witness ==
  /\ pc = "done"
  /\ Len(history) = 2
  /\ history[1][1] = text
  /\ history[1][2] = "None"
  /\ history[1][3] # <<>>
  /\ history[2][1] # text
  /\ history[2][2] = UnmatchedBracket

(***************************************************************************)
(* C21: an open heredoc closes only at a line that consists of exactly     *)
(* the heredoc identifier and follows a newline, and when it closes after  *)
(* the line of the assignment has ended (a newline lies between the start  *)
(* of the property and the terminator line) the scan stops right there,    *)
(* also when the heredoc has no body line.                                 *)
(***************************************************************************)
C21_HeredocCloseStops ==
  [][ (pc = "loop" /\ idx < Len(text) /\ Branch = "heredoc_close") =>
        /\ IsTerminatorLine(text, idx, heredoc_name, FALSE)
        /\ (\E j \in (start + 1)..idx : text[j] = NL) => pc' = "post" ]_vars

(***************************************************************************)
(* C22: for a value without heredoc, a scan that returns has stopped at    *)
(* the earliest position that is a newline outside a quoted string with    *)
(* an empty bracket stack, or a closing bracket that empties the stack     *)
(* after a newline has been read, when the text has such a position; the   *)
(* result is the trimmed text from after  x =  up to and including it.     *)
(***************************************************************************)
(* The earliest such position at or after offset i, Len(s) when there is   *)
(* none, -1 when a closing bracket has no partner.                         *)
RECURSIVE StopPoint(_, _, _, _, _, _)
StopPoint(s, i, stack, quoted, escaped, newline) ==
  IF i >= Len(s) THEN Len(s)
  ELSE LET c    == s[i + 1]
           esc2 == (c = "\\" /\ ~escaped)
       IN  IF c = "\"" /\ ~escaped
             THEN StopPoint(s, i + 1, stack, ~quoted, FALSE, newline)
           ELSE IF c \in Openers /\ ~quoted
             THEN StopPoint(s, i + 1, Append(stack, c), quoted, FALSE, newline)
           ELSE IF c \in Closers /\ ~quoted
             THEN IF stack = <<>> \/ stack[Len(stack)] # BRACKETS[c] THEN -1
                  ELSE IF newline /\ Len(stack) = 1 THEN i
                  ELSE StopPoint(s, i + 1, SubSeq(stack, 1, Len(stack) - 1),
                                 quoted, FALSE, newline)
           ELSE IF c = NL
             THEN IF ~quoted /\ stack = <<>> THEN i
                  ELSE StopPoint(s, i + 1, stack, quoted, FALSE, TRUE)
           ELSE StopPoint(s, i + 1, stack, quoted, esc2, newline)

NoHeredoc(s) == \A j \in 1..Len(s) : s[j] # "<"

C23_Termination ==
  /\ <>(pc = "done")
  /\ [][ (pc = "loop" /\ idx < Len(text)) =>
           /\ pc' = "loop" => idx' > idx
           /\ Branch = "heredoc_close" =>
                (idx >= 1 /\ idx + Len(heredoc_name) < Len(text)) ]_vars
  /\ [](pc = "loop" => idx <= Len(text) + 1)

C23_Witness ==
  /\ pc = "done"
  /\ exc = "None"
  /\ idx > Len(text)
  /\ heredoc_name # <<>>

(***************************************************************************)
(* C24: the line number HclLocal.find returns is the 1-based number of a   *)
(* line of the file on which the property is written,  x = ,  also when    *)
(* blank lines precede that line inside the locals block.                  *)
(***************************************************************************)
C24_LocalLine ==
  LocalReturned =>
    LET n     == lf_result[1][1]
        lines == SplitLines(file)
    IN  n \in 1..Len(lines) /\ PropMatchEnd(lines[n], 0) >= 0

(***************************************************************************)
(* C25: while a module is constructed no recorded declaration is replaced: *)
(* for the kinds that do not allow duplicates (locals, variable, output,   *)
(* validation, and resource when add_resource_identifier is set) every     *)
(* step keeps every recorded entry, an item whose name is already recorded *)
(* raises "Already defined", and an item whose lookup does not yield       *)
(* exactly one match raises an error; after a successful construction      *)
(* every recorded name is recorded once, maps to the one block its lookup  *)
(* located, and no declaration of such a kind is missing.                  *)
(***************************************************************************)
(* Every entry of the dict old is in the dict new, with the same value.    *)
KeptIn(old, new) ==
  \A j \in 1..Len(old) :
    HasKey(new, old[j].key) /\ Get(new, old[j].key) = old[j].value

(* The entry e of kind K holds exactly one located block of its item.      *)
OneLocatedBlock(K, e) ==
  /\ Len(Find(e.value.data)) = 1
  /\ e.value.loc = Find(e.value.data)[1]
  /\ decls[e.value.loc].kind = K
  /\ decls[e.value.loc].file = e.value.file
  /\ decls[e.value.loc].canonical
  /\ ItemName(decls[e.value.loc]) = e.key

C25_NoSilentOverwrite ==
  /\ [][ /\ \A K \in 1..Len(Kinds) :
              ~AllowDuplicates(K) =>
                /\ hm_pc = "merge" => KeptIn(parsed_data[K], parsed_data'[K])
                /\ \A f \in 1..Len(FileNames) :
                     KeptIn(data_parsed[f][K], data_parsed'[f][K])
         /\ (hm_pc = "parse" /\ hm_n <= Len(ParseOrder(1))) =>
              LET i == ParseOrder(1)[hm_n]
                  v == decls[i]
              IN  /\ ( /\ HasKey(data_parsed[v.file][v.kind], ItemName(v))
                       /\ ~AllowDuplicates(v.kind) )
                        => (hm_exc' = AlreadyDefined /\ hm_pc' = "done")
                  /\ Len(Find(i)) # 1
                        => (hm_exc' # "None" /\ hm_pc' = "done")
         /\ (hm_pc = "merge" /\ hm_n <= Len(MergeOrder(1))) =>
              LET e == MergeOrder(1)[hm_n]
              IN  ( /\ HasKey(parsed_data[e.kind], e.key)
                    /\ ~AllowDuplicates(e.kind) )
                     => (hm_exc' = AlreadyDefined /\ hm_pc' = "done")
       ]_vars
  /\ [](ModuleBuilt =>
          \A K \in 1..Len(Kinds) :
            /\ \A j \in 1..Len(parsed_data[K]) :
                 /\ OneLocatedBlock(K, parsed_data[K][j])
                 /\ \A h \in 1..Len(parsed_data[K]) :
                      parsed_data[K][h].key = parsed_data[K][j].key => h = j
            /\ ~AllowDuplicates(K) =>
                 Len(parsed_data[K]) =
                   Cardinality({i \in 1..Len(decls) : decls[i].kind = K}))

(* Two files declare the same resource while add_resource_identifier is    *)
(* set: the merge stops at the second one.                                 *)
C25_Witness ==
  /\ hm_pc = "done"
  /\ hm_exc = AlreadyDefined
  /\ add_resource_identifier
  /\ \E K \in 1..Len(Kinds) : Kinds[K] = "resource" /\ parsed_data[K] # <<>>

(***************************************************************************)
(* C26: in the table _make_table returns the header and every data row     *)
(* have the same number of cells, there is one data row per item, and the  *)
(* cell at index i of a data row holds the value (collapsed or not) of the *)
(* field that header cell i names, for every skip_columns and also when    *)
(* remove_empty_columns has dropped a column.                              *)
(***************************************************************************)
(* The field whose title is the header cell h.                             *)
FieldOf(h) == CHOOSE v \in {Fields[n] : n \in 1..Len(Fields)} : Title[v] = h

(* The row is the row of the item under the header hd.                     *)
IsRowOf(row, item, hd) ==
  /\ Len(row) = Len(hd)
  /\ \A c \in 1..Len(hd) :
       row[c] \in {item[FieldOf(hd[c])],
                   CollapseCell(item[FieldOf(hd[c])], TRUE)}

NoMarkerLine(docs) ==
  \A n \in 1..Len(SplitLines(docs)) :
    SplitLines(docs)[n] \notin {<<start_marker>>, <<end_marker>>}

(* The lines of the target when the last write read it.                    *)
ReadLines == SplitLines(original_content)

C27_RerunStable ==
  (w_n >= 1 /\ NoMarkerLine(generated_doc)) =>
    /\ LET r == InsertMarkedBlock(ReadLines, generated_doc)
           s == if_index(ReadLines, <<start_marker>>)
           e == if_index(ReadLines, <<end_marker>>)
       IN  r.exc = "None" =>
             /\ InsertMarkedBlock(r.lines, generated_doc) = r
             /\ s # -1 =>
                  /\ SubSeq(r.lines, 1, s) = SubSeq(ReadLines, 1, s)
                  /\ PySliceFrom(r.lines, if_index(r.lines, <<end_marker>>))
                       = PySliceFrom(ReadLines, e)
    /\ w_n >= 2 =>
         /\ w_exc = "None"
         /\ changed = FALSE
         /\ target = original_content

====
